---------------------------- MODULE Spec2Model ----------------------------
(***************************************************************************)
(* BigVector.js: vectors whose components are arbitrary-precision decimal  *)
(* numbers of type Big (library big.js).  The model holds one vector, the  *)
(* array its constructor was given, and the record of the last call made   *)
(* on it.  Every method of src/BigVector.js is an operator that computes   *)
(* what the method computes, loop by loop, and an action that calls it.    *)
(*                                                                         *)
(* A Big is the decimal n * 10^(-e), kept without trailing zeros.  plus,   *)
(* minus, times and pow are exact; div and sqrt round to DP decimal places *)
(* to nearest, ties away from zero (big.js: Big.DP, Big.RM = 1).  big.js   *)
(* throws on a division by zero and on an operand that is no number.       *)
(***************************************************************************)
EXTENDS Integers, Sequences, FiniteSets, TLC

(* Bounds of the model. *)
\* Decimal places kept by div and sqrt (big.js default: 20).
DP == 1
\* Largest dimension of the vectors the caller builds.
MaxDim == 3

\* The numbers the caller puts into vectors and passes as scalars.
Vals == {-1, 0, 1}

-----------------------------------------------------------------------------
(* JavaScript values *)

Undefined == [k |-> "undefined"]
NaN == [k |-> "NaN"]
Throw(err) == [k |-> "throw", err |-> err]
IsThrow(x) == x.k = "throw"
IsBig(x) == x.k = "big"

-----------------------------------------------------------------------------
(* big.js *)

RECURSIVE Pow10(_)
Pow10(k) == IF k = 0 THEN 1 ELSE 10 * Pow10(k - 1)

Abs(n) == IF n < 0 THEN -n ELSE n
Sign(n) == IF n < 0 THEN -1 ELSE 1
Max(a, b) == IF a >= b THEN a ELSE b

\* big.js strips trailing zeros from the coefficient after every operation.
RECURSIVE Norm(_, _)
Norm(n, e) ==
    IF n = 0 THEN [k |-> "big", n |-> 0, e |-> 0]
    ELSE IF e > 0 /\ Abs(n) % 10 = 0 THEN Norm(n \div 10, e - 1)
    ELSE [k |-> "big", n |-> n, e |-> e]

\* new Big(n) for an integer literal n.
Big(n) == Norm(n, 0)

\* Math.acos(x) of a Big x (converted by valueOf): NaN outside [-1, 1],
\* else the double nearest arccos(x), a value in [0, pi] kept by the
\* quotient it is the arc cosine of.
MathAcos(x) ==
    IF IsThrow(x) THEN x
    ELSE IF ~IsBig(x) THEN NaN
    ELSE IF Abs(x.n) > Pow10(x.e) THEN NaN
    ELSE [k |-> "number", acos |-> x]

\* new Big(x) for a native number x: NaN is refused; acos(1) is 0 exactly.
\* Any other angle is the Big of arccos(x.acos) radians; reflex tells
\* an angle beyond pi (2 pi - arccos), which Math.acos never gives.
BigOfNumber(x) ==
    IF IsThrow(x) THEN x
    ELSE IF x.k = "NaN" THEN Throw("BigError")
    ELSE IF x.acos.n = 1 /\ x.acos.e = 0 THEN Big(0)
    ELSE [k |-> "radians", acos |-> x.acos, reflex |-> FALSE]

\* x.m(y): the receiver is evaluated and dereferenced first, then the
\* argument, which the method converts with new Big(y).  Accepted when both
\* are Bigs; Refusal is what is thrown otherwise.
Accepted(x, y) == IsBig(x) /\ IsBig(y)

Refusal(x, y) ==
    IF IsThrow(x) THEN x
    ELSE IF ~IsBig(x) THEN Throw("TypeError")
    ELSE IF IsThrow(y) THEN y
    ELSE Throw("BigError")

AddExact(x, y) ==
    LET e == Max(x.e, y.e)
    IN  Norm(x.n * Pow10(e - x.e) + y.n * Pow10(e - y.e), e)

SubExact(x, y) ==
    LET e == Max(x.e, y.e)
    IN  Norm(x.n * Pow10(e - x.e) - y.n * Pow10(e - y.e), e)

MulExact(x, y) == Norm(x.n * y.n, x.e + y.e)

\* Quotient to DP places, to nearest, ties away from zero.
DivRounded(x, y) ==
    IF y.n = 0 THEN Throw("BigError")
    ELSE LET num == Abs(x.n) * Pow10(y.e + DP)
             den == Abs(y.n) * Pow10(x.e)
             q   == (2 * num + den) \div (2 * den)
         IN  Norm(Sign(x.n) * Sign(y.n) * q, DP)

BigPlus(x, y) == IF Accepted(x, y) THEN AddExact(x, y) ELSE Refusal(x, y)
BigMinus(x, y) == IF Accepted(x, y) THEN SubExact(x, y) ELSE Refusal(x, y)
BigTimes(x, y) == IF Accepted(x, y) THEN MulExact(x, y) ELSE Refusal(x, y)
BigDiv(x, y) == IF Accepted(x, y) THEN DivRounded(x, y) ELSE Refusal(x, y)

\* x.pow(2)
BigPow2(x) ==
    IF IsThrow(x) THEN x
    ELSE IF ~IsBig(x) THEN Throw("TypeError")
    ELSE MulExact(x, x)

\* The largest s with s * s <= m, found between lo and hi (lo*lo <= m < hi*hi).
RECURSIVE Bisect(_, _, _)
Bisect(m, lo, hi) ==
    IF hi - lo <= 1 THEN lo
    ELSE LET mid == (lo + hi) \div 2
         IN  IF mid * mid <= m THEN Bisect(m, mid, hi) ELSE Bisect(m, lo, mid)

\* The first of h, 2h, 4h, ... whose square exceeds m.
RECURSIVE Above(_, _)
Above(m, h) == IF h * h > m THEN h ELSE Above(m, 2 * h)

ISqrt(m) == Bisect(m, 0, Above(m, 1))

\* x.sqrt(): the root to DP places, to nearest, ties away from zero; a
\* negative operand is refused.
BigSqrt(x) ==
    IF IsThrow(x) THEN x
    ELSE IF ~IsBig(x) THEN Throw("TypeError")
    ELSE IF x.n < 0 THEN Throw("BigError")
    ELSE LET twice == ISqrt((4 * x.n * Pow10(2 * DP)) \div Pow10(x.e))
         IN  Norm((twice + 1) \div 2, DP)

\* x.eq(y)
BigEq(x, y) == x.n = y.n /\ x.e = y.e

-----------------------------------------------------------------------------
(* BigVector: the methods, on the arrays of components.  c is the array  *)
(* this.components, d the array vector.components of the argument.  A     *)
(* method returns ret, with the number of magnitude() and angle() calls   *)
(* and of divisions its own body made.                                    *)

\* a[i], indices from 0: undefined beyond the array's end.
At(a, i) == IF i < Len(a) THEN a[i + 1] ELSE Undefined

\* new BigVector(components) as a returned value: a vector over a fresh array.
Vector(components) == [k |-> "BigVector", components |-> components]

\* [a, b] as a returned value: a fresh array of two elements.
Pair(a, b) == [k |-> "Array", elements |-> <<a, b>>]

Returns(ret, mags, angles, divs) ==
    [ret |-> ret, magnitudeCalls |-> mags, angleCalls |-> angles,
     divisions |-> divs]

RECURSIVE SumOfSquares(_, _, _)
SumOfSquares(c, i, sumOfSquares) ==
    IF i >= Len(c) THEN sumOfSquares
    ELSE SumOfSquares(c, i + 1, BigPlus(sumOfSquares, BigPow2(At(c, i))))

magnitude(c) == BigSqrt(SumOfSquares(c, 0, Big(0)))

\* The loop of direction: every iteration calls this.magnitude() again.  A
\* throw inside a loop ends the call.
RECURSIVE DirectionLoop(_, _, _, _)
DirectionLoop(c, i, components, mags) ==
    IF i >= Len(c) THEN Returns(Vector(components), mags, 0, i)
    ELSE LET normalizedComponent == BigDiv(At(c, i), magnitude(c))
         IN  IF IsThrow(normalizedComponent)
             THEN Returns(normalizedComponent, mags + 1, 0, i + 1)
             ELSE DirectionLoop(c, i + 1,
                                Append(components, normalizedComponent), mags + 1)

\* direction without the test for a zero magnitude.
directionDividesAnyway(c) == DirectionLoop(c, 0, <<>>, 1)

direction(c) ==
    IF ~BigEq(magnitude(c), Big(0))
    THEN DirectionLoop(c, 0, <<>>, 1)
    ELSE Returns(NaN, 1, 0, 0)

RECURSIVE PlusLoop(_, _, _, _)
PlusLoop(c, d, i, components) ==
    IF i >= Len(c) THEN Vector(components)
    ELSE LET sum == BigPlus(At(c, i), At(d, i))
         IN  IF IsThrow(sum) THEN sum
             ELSE PlusLoop(c, d, i + 1, Append(components, sum))

plus(c, d) == PlusLoop(c, d, 0, <<>>)

RECURSIVE MinusLoop(_, _, _, _)
MinusLoop(c, d, i, components) ==
    IF i >= Len(c) THEN Vector(components)
    ELSE LET difference == BigMinus(At(c, i), At(d, i))
         IN  IF IsThrow(difference) THEN difference
             ELSE MinusLoop(c, d, i + 1, Append(components, difference))

minus(c, d) == MinusLoop(c, d, 0, <<>>)

\* The loop of scale adding the scalar instead of multiplying by it.
RECURSIVE ScaleLoopAdds(_, _, _, _)
ScaleLoopAdds(c, scalar, i, components) ==
    IF i >= Len(c) THEN Vector(components)
    ELSE LET product == BigPlus(At(c, i), scalar)
         IN  IF IsThrow(product) THEN product
             ELSE ScaleLoopAdds(c, scalar, i + 1, Append(components, product))

RECURSIVE ScaleLoop(_, _, _, _)
ScaleLoop(c, scalar, i, components) ==
    IF i >= Len(c) THEN Vector(components)
    ELSE LET product == BigTimes(At(c, i), scalar)
         IN  IF IsThrow(product) THEN product
             ELSE ScaleLoop(c, scalar, i + 1, Append(components, product))

scale(c, scalar) == ScaleLoop(c, scalar, 0, <<>>)

RECURSIVE DotLoop(_, _, _, _)
DotLoop(c, d, i, sum) ==
    IF i >= Len(c) THEN sum
    ELSE DotLoop(c, d, i + 1, BigPlus(sum, BigTimes(At(c, i), At(d, i))))

\* dot with the dimensions compared first.
dotChecksDimension(c, d) ==
    IF Len(c) # Len(d) THEN Throw("DimensionMismatch") ELSE DotLoop(c, d, 0, Big(0))

dot(c, d) == DotLoop(c, d, 0, Big(0))

RECURSIVE SquaresOfDifs(_, _, _, _)
SquaresOfDifs(c, d, i, squaresOfDifs) ==
    IF i >= Len(c) THEN squaresOfDifs
    ELSE SquaresOfDifs(c, d, i + 1,
             BigPlus(squaresOfDifs, BigPow2(BigMinus(At(c, i), At(d, i)))))

\* distance without the square root.
distanceUnrooted(c, d) == SquaresOfDifs(c, d, 0, Big(0))

distance(c, d) == BigSqrt(SquaresOfDifs(c, d, 0, Big(0)))

\* cross with the dimensions compared first.
crossChecksDimension(c, d) ==
    IF Len(c) # 3 \/ Len(d) # 3 THEN Throw("DimensionUnsupported")
    ELSE Vector(<<
        BigMinus(BigTimes(At(c, 1), At(d, 2)), BigTimes(At(c, 2), At(d, 1))),
        BigMinus(BigTimes(At(c, 2), At(d, 0)), BigTimes(At(c, 0), At(d, 2))),
        BigMinus(BigTimes(At(c, 0), At(d, 1)), BigTimes(At(c, 1), At(d, 0)))>>)

\* cross with the two terms of y exchanged.
crossWrongY(c, d) ==
    LET x == BigMinus(BigTimes(At(c, 1), At(d, 2)), BigTimes(At(c, 2), At(d, 1)))
        y == BigMinus(BigTimes(At(c, 0), At(d, 2)), BigTimes(At(c, 2), At(d, 0)))
        z == BigMinus(BigTimes(At(c, 0), At(d, 1)), BigTimes(At(c, 1), At(d, 0)))
    IN  IF IsThrow(x) THEN x
        ELSE IF IsThrow(y) THEN y
        ELSE IF IsThrow(z) THEN z
        ELSE Vector(<<x, y, z>>)

cross(c, d) ==
    LET x == BigMinus(BigTimes(At(c, 1), At(d, 2)), BigTimes(At(c, 2), At(d, 1)))
        y == BigMinus(BigTimes(At(c, 2), At(d, 0)), BigTimes(At(c, 0), At(d, 2)))
        z == BigMinus(BigTimes(At(c, 0), At(d, 1)), BigTimes(At(c, 1), At(d, 0)))
    IN  IF IsThrow(x) THEN x
        ELSE IF IsThrow(y) THEN y
        ELSE IF IsThrow(z) THEN z
        ELSE Vector(<<x, y, z>>)

\* angle answering 0 for a zero denominator, as polarCoords does for a
\* zero magnitude.
angleGuardsZero(c, d) ==
    LET numerator == dot(c, d)
        denominator == BigTimes(magnitude(c), magnitude(d))
    IN  IF IsThrow(numerator) THEN Returns(numerator, 0, 0, 0)
        ELSE IF BigEq(denominator, Big(0)) THEN Returns(Big(0), 2, 0, 0)
        ELSE Returns(BigOfNumber(MathAcos(BigDiv(numerator, denominator))), 2, 0, 1)

angle(c, d) ==
    LET numerator == dot(c, d)
        denominator == BigTimes(magnitude(c), magnitude(d))
    IN  IF IsThrow(numerator) THEN Returns(numerator, 0, 0, 0)
        ELSE Returns(BigOfNumber(MathAcos(BigDiv(numerator, denominator))), 2, 0, 1)

polarCoords(c) ==
    LET m == magnitude(c)
        a == angle(c, <<Big(1), Big(0)>>)
    IN  IF BigEq(m, Big(0)) THEN Returns(Pair(m, Big(0)), 1, 0, 0)
        ELSE IF IsThrow(a.ret) THEN Returns(a.ret, 1, 1, 0)
        ELSE Returns(Pair(m, a.ret), 1, 1, 0)

-----------------------------------------------------------------------------
(* The program's state *)

VARIABLES
    heap,            \* the arrays there are: address -> sequence of Bigs
    self,            \* the vector: [components |-> address of its array]
    callerRef,       \* the array the caller passed to the constructor
    viewRef,         \* the array getComponents last returned (0: not called)
    atConstruction,  \* the vector's components when it was constructed
    call             \* the last call: method, argument, what it returned

vars == <<heap, self, callerRef, viewRef, atConstruction, call>>

BigVals == {Big(v) : v \in Vals}

\* The arrays of at most maxLen Bigs a caller can build.
Arrays(maxLen) == UNION {[1..n -> BigVals] : n \in 0..maxLen}

Inputs == Arrays(MaxDim)

\* One dimension more, for the methods that want a fixed dimension.
LongInputs == Arrays(MaxDim + 1)

\* A constructor that keeps a copy of the caller's array.
BigVectorCopies(h, components) ==
    [heap |-> Append(h, h[components]), this |-> [components |-> Len(h) + 1]]

\* function BigVector(components): this.components = components keeps the
\* caller's array itself, not a copy.
BigVector(h, components) ==
    [heap |-> h, this |-> [components |-> components]]

\* getComponents(): return this.components, the array itself.
getComponents(this) == this.components

Components == heap[self.components]

NoCall ==
    [op |-> "none", arg |-> Undefined, ret |-> Undefined,
     magnitudeCalls |-> 0, angleCalls |-> 0, divisions |-> 0]

Called(op, arg, r) ==
    [op |-> op, arg |-> arg, ret |-> r.ret,
     magnitudeCalls |-> r.magnitudeCalls, angleCalls |-> r.angleCalls,
     divisions |-> r.divisions]

Plain(ret) == Returns(ret, 0, 0, 0)

InitWith(arrays) ==
    \E components \in arrays :
        LET made == BigVector(<<components>>, 1)
        IN  /\ heap = made.heap
            /\ self = made.this
            /\ callerRef = 1
            /\ viewRef = 0
            /\ atConstruction = made.heap[made.this.components]
            /\ call = NoCall

Init == InitWith(Inputs)

InitFixedDim == InitWith(LongInputs)

\* The program is one thread: a call is made when the one before has
\* returned and its result has been taken.
Idle == call.op = "none"

\* No method assigns to this.components or to an element of it.
Frame == UNCHANGED <<heap, self, callerRef, viewRef, atConstruction>>

\* The caller takes what the call returned (or catches what it threw).
Return ==
    /\ ~Idle
    /\ call' = NoCall
    /\ Frame

GetComponents ==
    /\ Idle
    /\ viewRef' = getComponents(self)
    /\ call' = Called("getComponents", Undefined,
                      Plain([k |-> "reference", address |-> getComponents(self)]))
    /\ UNCHANGED <<heap, self, callerRef, atConstruction>>

\* The caller assigns to an element of an array it holds.
CallerWrite ==
    /\ Idle
    /\ \E ref \in {callerRef, viewRef} \ {0} :
           \E i \in DOMAIN heap[ref] :
               \E x \in BigVals :
                   /\ heap' = [heap EXCEPT ![ref][i] = x]
                   /\ call' = Called("write", Undefined, Plain(Undefined))
                   /\ UNCHANGED <<self, callerRef, viewRef, atConstruction>>

Magnitude ==
    /\ Idle
    /\ call' = Called("magnitude", Undefined, Plain(magnitude(Components)))
    /\ Frame

Direction ==
    /\ Idle
    /\ call' = Called("direction", Undefined, direction(Components))
    /\ Frame

Plus(W) ==
    /\ Idle
    /\ \E d \in W :
           /\ call' = Called("plus", d, Plain(plus(Components, d)))
           /\ Frame

Minus(W) ==
    /\ Idle
    /\ \E d \in W :
           /\ call' = Called("minus", d, Plain(minus(Components, d)))
           /\ Frame

Scale ==
    /\ Idle
    /\ \E scalar \in BigVals :
           /\ call' = Called("scale", scalar, Plain(scale(Components, scalar)))
           /\ Frame

Dot(W) ==
    /\ Idle
    /\ \E d \in W :
           /\ call' = Called("dot", d, Plain(dot(Components, d)))
           /\ Frame

Distance(W) ==
    /\ Idle
    /\ \E d \in W :
           /\ call' = Called("distance", d, Plain(distance(Components, d)))
           /\ Frame

Cross(W) ==
    /\ Idle
    /\ \E d \in W :
           /\ call' = Called("cross", d, Plain(cross(Components, d)))
           /\ Frame

Angle(W) ==
    /\ Idle
    /\ \E d \in W :
           /\ call' = Called("angle", d, angle(Components, d))
           /\ Frame

PolarCoords ==
    /\ Idle
    /\ call' = Called("polarCoords", Undefined, polarCoords(Components))
    /\ Frame

\* Calls on one vector, the argument vectors built by the caller.
Next ==
    \/ Magnitude
    \/ Direction
    \/ Plus(Inputs)
    \/ Minus(Inputs)
    \/ Scale
    \/ Dot(Inputs)
    \/ Distance(Inputs)
    \/ Cross(Inputs)
    \/ Angle(Inputs)
    \/ PolarCoords
    \/ Return

Spec == Init /\ [][Next]_vars

\* The two methods that want a fixed dimension, on vectors up to one
\* dimension longer.
NextFixedDim ==
    \/ Cross(LongInputs)
    \/ PolarCoords
    \/ Return

SpecFixedDim == InitFixedDim /\ [][NextFixedDim]_vars

\* The caller keeps the arrays it passed and was given and writes to them
\* between calls; a call's argument is the vector itself.
NextAlias ==
    \/ GetComponents
    \/ CallerWrite
    \/ Magnitude
    \/ Direction
    \/ Plus({Components})
    \/ Minus({Components})
    \/ Scale
    \/ Dot({Components})
    \/ Distance({Components})
    \/ Cross({Components})
    \/ Angle({Components})
    \/ PolarCoords
    \/ Return

SpecAlias == Init /\ [][NextAlias]_vars

-----------------------------------------------------------------------------
(* What the claims speak of *)

Receiver == Components
Arg == call.arg
Ret == call.ret
Dim(a) == Len(a)
IsVector(x) == x.k = "BigVector"
IsZero(x) == IsBig(x) /\ x.n = 0
Prefix(d, n) == SubSeq(d, 1, n)
ZeroVector(n) == Vector([i \in 1..n |-> Big(0)])

\* a <= b, of two Bigs, by the sign of the exact difference.
Le(a, b) == SubExact(b, a).n >= 0
AbsBig(a) == [a EXCEPT !.n = Abs(a.n)]

\* r is x / m to DP places, to nearest: r has at most DP decimals and
\* |x - r * m| <= |m| / (2 * 10^DP).
IsQuotient(r, x, m) ==
    /\ IsBig(r)
    /\ r.e <= DP
    /\ Le(MulExact(Big(2 * Pow10(DP)), AbsBig(SubExact(x, MulExact(r, m)))),
          AbsBig(m))

BinaryLoops == {"plus", "minus", "dot", "distance"}

\* What the method named op returns for receiver c and argument d.
Apply(op, c, d) ==
    CASE op = "plus" -> plus(c, d)
      [] op = "minus" -> minus(c, d)
      [] op = "dot" -> dot(c, d)
      [] op = "distance" -> distance(c, d)

Methods ==
    {"magnitude", "direction", "plus", "minus", "scale", "dot", "distance",
     "cross", "angle", "polarCoords"}

-----------------------------------------------------------------------------
(* C1: plus, minus, dot and distance on vectors of different dimensions.  *)

\* C1 as claimed: for plus, minus, dot and distance, a call whose argument
\* has another dimension than the receiver raises an error and returns no
\* result, whether the argument is the shorter or the longer one.
C1_MismatchAlwaysRaises ==
    (call.op \in BinaryLoops /\ Dim(Arg) # Dim(Receiver)) => IsThrow(Ret)

\* C1 amended: for plus, minus, dot and distance, an argument shorter than
\* the receiver makes the call throw the decimal library's error for the
\* missing operand (no DimensionMismatch error); an argument longer than
\* the receiver makes it return what it returns for the argument's first
\* dimension(receiver) components.
C1_ShorterRaisesLongerTruncates ==
    call.op \in BinaryLoops =>
        /\ Dim(Arg) < Dim(Receiver) => Ret = Throw("BigError")
        /\ Dim(Arg) > Dim(Receiver) =>
               /\ ~IsThrow(Ret)
               /\ Ret = Apply(call.op, Receiver, Prefix(Arg, Dim(Receiver)))

C1_Witness ==
    /\ call.op = "dot"
    /\ Dim(Receiver) >= 1
    /\ Dim(Arg) > Dim(Receiver)
    /\ IsBig(Ret)
    /\ Ret.n # 0

-----------------------------------------------------------------------------
(* C2: cross and polarCoords on vectors of another dimension than 3 and 2. *)

-----------------------------------------------------------------------------
(* C3: the vector's components after calls and after the caller's writes.  *)

\* C3 as claimed: whatever methods are called and whatever the caller
\* writes to the array it passed to the constructor or was given by
\* getComponents, the vector's components are those of its construction.
C3_ComponentsAsConstructed == Components = atConstruction

\* C3 amended: no call of magnitude, direction, plus, minus, scale, dot,
\* distance, cross, angle, polarCoords or getComponents changes the vector's
\* components; but the vector holds the very array the caller passed, and
\* getComponents returns that same array, so a caller's write to either
\* changes the vector's component at that index.
C3_MethodsKeepWritesShow ==
    /\ [](self.components = callerRef)
    /\ [](viewRef # 0 => viewRef = self.components)
    /\ [][call'.op \in Methods \cup {"getComponents"} => Components' = Components]_vars
    /\ [][call'.op = "write" =>
            \E i \in DOMAIN Components :
                /\ Components' = [Components EXCEPT ![i] = Components'[i]]
                /\ heap'[callerRef][i] = Components'[i]]_vars

C3_Witness ==
    /\ call.op \in Methods
    /\ viewRef # 0
    /\ Components # atConstruction

-----------------------------------------------------------------------------
(* C4: direction.                                                          *)

\* The nonzero case of C4: a new vector of the receiver's dimension whose
\* i-th component is the receiver's i-th divided by the magnitude.
DirectionIsNormalized ==
    /\ IsVector(Ret)
    /\ Dim(Ret.components) = Dim(Receiver)
    /\ \A i \in 1..Dim(Receiver) :
           IsQuotient(Ret.components[i], Receiver[i], magnitude(Receiver))

\* C4 as claimed: on a vector of magnitude zero direction returns an absent
\* result, neither a vector nor a number, and divides nothing; on any other
\* vector it returns the normalized vector.
C4_ZeroGivesAbsent ==
    call.op = "direction" =>
        IF IsZero(magnitude(Receiver))
        THEN /\ Ret.k \notin {"BigVector", "NaN", "big", "number", "radians"}
             /\ ~IsThrow(Ret)
             /\ call.divisions = 0
        ELSE DirectionIsNormalized

\* C4 amended: on a vector of magnitude zero direction returns the number
\* NaN (a numeric sentinel, not a vector) and divides nothing; on any other
\* vector it returns the normalized vector.
C4_ZeroGivesNaN ==
    call.op = "direction" =>
        IF IsZero(magnitude(Receiver))
        THEN Ret = NaN /\ call.divisions = 0
        ELSE DirectionIsNormalized

C4_Witness ==
    /\ call.op = "direction"
    /\ Dim(Receiver) >= 2
    /\ Ret = NaN

-----------------------------------------------------------------------------
(* C5: angle with a vector of magnitude zero.                              *)

\* C5: for vectors of the same dimension of which one has magnitude zero,
\* angle throws and returns nothing (no NaN either).
C5_AngleOfZeroRaises ==
    (/\ call.op = "angle"
     /\ Dim(Arg) = Dim(Receiver)
     /\ (IsZero(magnitude(Receiver)) \/ IsZero(magnitude(Arg))))
        => IsThrow(Ret)

C5_Witness ==
    /\ call.op = "angle"
    /\ Dim(Arg) = Dim(Receiver)
    /\ Dim(Receiver) >= 2
    /\ ~IsZero(magnitude(Receiver))
    /\ IsZero(magnitude(Arg))
    /\ IsThrow(Ret)

-----------------------------------------------------------------------------
(* C6: polarCoords.                                                        *)

\* The polar angle of the two-dimensional c, from the positive x axis, in
\* [0, 2 pi]: arccos(x / magnitude) above the x axis and on it, and
\* 2 pi - arccos(x / magnitude) below it; 0 for magnitude zero.
PolarAngle(c) ==
    IF IsZero(magnitude(c)) THEN Big(0)
    ELSE LET a == BigOfNumber(MathAcos(DivRounded(c[1], magnitude(c))))
         IN  IF c[2].n >= 0 THEN a
             ELSE [k |-> "radians", acos |-> DivRounded(c[1], magnitude(c)),
                   reflex |-> TRUE]

\* C6: polarCoords of a two-dimensional vector returns its magnitude and
\* its polar angle in [0, 2 pi] (0, pi/2, pi, 3 pi/2 for (1,0), (0,1),
\* (-1,0), (0,-1)), the angle being 0, without a call of angle, when the
\* magnitude is zero.
C6_PolarAngle ==
    (call.op = "polarCoords" /\ Dim(Receiver) = 2) =>
        /\ Ret = Pair(magnitude(Receiver), PolarAngle(Receiver))
        /\ IsZero(magnitude(Receiver)) => call.angleCalls = 0

\* The part of C6 the code keeps: above the x axis and on it, and for the
\* zero vector.
C6_UpperHalfPlane ==
    (call.op = "polarCoords" /\ Dim(Receiver) = 2 /\ Receiver[2].n >= 0) =>
        /\ Ret = Pair(magnitude(Receiver), PolarAngle(Receiver))
        /\ IsZero(magnitude(Receiver)) => call.angleCalls = 0

-----------------------------------------------------------------------------
(* C7: cross of three-dimensional vectors.                                 *)

\* C7: for three-dimensional v and w, v.cross(w) is
\* (v1*w2 - v2*w1, v2*w0 - v0*w2, v0*w1 - v1*w0) and its dot product with v
\* and with w is 0.
C7_CrossOrthogonal ==
    (call.op = "cross" /\ Dim(Receiver) = 3 /\ Dim(Arg) = 3) =>
        LET v == [i \in 0..2 |-> Receiver[i + 1].n]
            w == [i \in 0..2 |-> Arg[i + 1].n]
        IN  /\ Ret = Vector(<<Big(v[1] * w[2] - v[2] * w[1]),
                              Big(v[2] * w[0] - v[0] * w[2]),
                              Big(v[0] * w[1] - v[1] * w[0])>>)
            /\ dot(Ret.components, Receiver) = Big(0)
            /\ dot(Ret.components, Arg) = Big(0)

C7_Witness ==
    /\ call.op = "cross"
    /\ Dim(Receiver) = 3
    /\ Dim(Arg) = 3
    /\ IsVector(Ret)
    /\ \A i \in 1..3 : Ret.components[i].n # 0

-----------------------------------------------------------------------------
(* C8: distance.                                                           *)

\* C8: for vectors of the same dimension, v.distance(w) is
\* v.minus(w).magnitude(), and so equals w.distance(v), and is 0 for w = v.
C8_DistanceIsMagnitudeOfDifference ==
    (call.op = "distance" /\ Dim(Arg) = Dim(Receiver)) =>
        /\ Ret = magnitude(minus(Receiver, Arg).components)
        /\ Ret = distance(Arg, Receiver)
        /\ Arg = Receiver => Ret = Big(0)

C8_Witness ==
    /\ call.op = "distance"
    /\ Dim(Arg) = Dim(Receiver)
    /\ Dim(Receiver) >= 2
    /\ IsBig(Ret)
    /\ Ret.e > 0

-----------------------------------------------------------------------------
(* C9: v.plus(v.scale(-1)).                                                *)

\* C9: for a vector v of dimension n >= 1, v.plus(v.scale(-1)) is the vector
\* of n zeros, and v is as it was.
C9_PlusOfNegationIsZero ==
    (/\ call.op = "plus"
     /\ Dim(Receiver) >= 1
     /\ Vector(Arg) = scale(Receiver, Big(-1)))
        => /\ Ret = ZeroVector(Dim(Receiver))
           /\ Components = atConstruction

C9_Witness ==
    /\ call.op = "plus"
    /\ Dim(Receiver) >= 2
    /\ Vector(Arg) = scale(Receiver, Big(-1))
    /\ \E i \in 1..Dim(Receiver) : Receiver[i].n # 0
    /\ IsVector(Ret)

-----------------------------------------------------------------------------
(* C10: the magnitude() calls of one direction() call.                     *)

\* C10: one call of direction computes the magnitude once, whatever the
\* dimension.
C10_MagnitudeOnce ==
    call.op = "direction" => call.magnitudeCalls = 1

\* What the code does: one magnitude() call for the test and one more per
\* component of a vector whose magnitude is not zero.
C10_MagnitudePerComponent ==
    call.op = "direction" =>
        call.magnitudeCalls =
            IF IsZero(magnitude(Receiver)) THEN 1 ELSE 1 + Dim(Receiver)

=============================================================================
